---------------------------- MODULE Spec2Model ----------------------------
(***************************************************************************)
(* A model of src/app/page.tsx (algo-trading-ui): the bounded history      *)
(* buffer (pushBounded), the message classifier (asStreamMsg), the         *)
(* dashboard's stream handlers (the aggregation store), the reconnecting   *)
(* market stream (createMarketStream), alone and wired to the dashboard,   *)
(* the publication throttle (useRafThrottle), the risk fields with their   *)
(* thresholds and drift, and the pure functions calcPnLPct, calcPnLAbs     *)
(* and RiskBadge.                                                          *)
(*                                                                         *)
(* Conventions.  A JavaScript string is a sequence of one-character        *)
(* strings, so that String.prototype.includes is computed character by     *)
(* character.  A JavaScript number that carries a price is an integer      *)
(* count of thousandths (22400.125 is 22400125), so that toFixed(2) has    *)
(* something to round.  The wall-clock prefix of a log line                *)
(* (toLocaleTimeString) is left out of the line.                           *)
(***************************************************************************)
EXTENDS Integers, Sequences, FiniteSets, TLC

VARIABLES
    \* ---- bounded buffer exercised alone (pushBounded) ----
    bufCap,            \* the max argument
    buf,               \* the array pushBounded returned last
    pushed,            \* history: every item pushed so far, oldest first
    \* ---- TradingDashboard state (page.tsx 406-423) ----
    marketData, dailyLoss, marginUsedPct,
    signalsN, tradesN, logsN,
    signalsB, tradesB, logsB,
    sysLogs,
    steps,             \* number of handler calls applied (bounded)
    lastIn,            \* history: the last input handed to a handler
    \* ---- createMarketStream closure state (page.tsx 144-221) ----
    useMock, url, started,
    ws,                \* readyState of the socket `ws` refers to, or "null"
    closed, hbTimer, timers, reconnectAttempt,
    reconnectPending,  \* a setTimeout(connect, delay) is outstanding
    mockTimer,         \* the mock setInterval is active
    tornDown,          \* history: teardown has been called
    teardowns,         \* history: number of teardown calls so far
    lateEvents,        \* history: what happened after teardown
    consecCloses,      \* history: unintentional closes since the last open
    lastBackoff,       \* history: <<k, delay>> of the last scheduled reconnect
    calls,             \* history: the handler calls made by the last step
    \* ---- useRafThrottle state (page.tsx 82-106) ----
    value, throttled, lastRaf, rafQueue, lastTime, now, phase,
    pubs,              \* history: number of publishes so far
    lastGap,           \* history: time between the last two publishes
    \* ---- thresholds read from the environment (page.tsx 19-20) ----
    dailyMaxLoss, marginWarnPct,
    \* ---- the pure functions exercised alone ----
    fn,                \* the function applied last
    args,              \* its arguments
    out                \* its result

bufVars    == <<bufCap, buf, pushed>>
storeVars  == <<marketData, dailyLoss, marginUsedPct, signalsN, tradesN, logsN,
                signalsB, tradesB, logsB, sysLogs>>
histVars   == <<steps, lastIn>>
streamVars == <<useMock, url, started, ws, closed, hbTimer, timers,
                reconnectAttempt, reconnectPending, mockTimer, tornDown, teardowns,
                lateEvents, consecCloses, lastBackoff, calls>>
thrVars    == <<value, throttled, lastRaf, rafQueue, lastTime, now, phase,
                pubs, lastGap>>
cfgVars    == <<dailyMaxLoss, marginWarnPct>>
calcVars   == <<fn, args, out>>
vars       == <<bufVars, storeVars, histVars, streamVars, thrVars, cfgVars, calcVars>>

\* ------------------------------------------------------------------------
\* Bounds of the model
\* ------------------------------------------------------------------------
MaxCap      == 3     \* largest capacity tried on the lone buffer
MaxPushes   == 5     \* pushes made on the lone buffer

\* ------------------------------------------------------------------------
\* Configuration constants (page.tsx 10-13)
\* ------------------------------------------------------------------------
MAX_SIGNALS    == 500
MAX_TRADE_LOGS == 1000
MAX_SYS_LOGS   == 200
UI_FPS         == 4

\* the defaults of the thresholds (page.tsx 19-20)
DAILY_MAX_LOSS  == 5000
MARGIN_WARN_PCT == 90
\* WARN_FRACTION (page.tsx 21) is 0.8: eight tenths
WARN_TENTHS     == 8

\* ------------------------------------------------------------------------
\* Small helpers
\* ------------------------------------------------------------------------
Min(a, b) == IF a <= b THEN a ELSE b
Max(a, b) == IF a >= b THEN a ELSE b

\* Array.prototype.slice(0, n) for 0 <= n
Slice0(arr, n) == SubSeq(arr, 1, Min(n, Len(arr)))

\* pushBounded(arr, item, max), page.tsx 131-134.  For a negative max the
\* JavaScript slice counts from the end; the callers pass positive constants.
PushKeepsTail(arr, item, max) ==
    LET next == <<item>> \o arr
    IN  IF Len(next) > max THEN SubSeq(next, Len(next) - max + 1, Len(next)) ELSE next

PushAppends(arr, item, max) ==
    LET next == arr \o <<item>>
    IN  IF Len(next) > max THEN Slice0(next, max) ELSE next

PushUnbounded(arr, item, max) == <<item>> \o arr

pushBounded(arr, item, max) ==
    LET next == <<item>> \o arr
    IN  IF Len(next) > max THEN Slice0(next, max) ELSE next

\* ------------------------------------------------------------------------
\* The lone buffer: reduce(pushBounded) from [] as in the self-test 430-432
\* ------------------------------------------------------------------------
Items == {"a", "b"}

BufIdle == bufCap = 0 /\ buf = <<>> /\ pushed = <<>>

BufPush(item) ==
    /\ Len(pushed) < MaxPushes
    /\ buf' = pushBounded(buf, item, bufCap)
    /\ pushed' = Append(pushed, item)
    /\ UNCHANGED <<bufCap, storeVars, histVars, streamVars, thrVars, cfgVars, calcVars>>

\* ------------------------------------------------------------------------
\* JavaScript values and strings
\* ------------------------------------------------------------------------
JSUndefined == [ty |-> "undefined", num |-> 0, str |-> <<>>]
JSNumber(n) == [ty |-> "number",    num |-> n, str |-> <<>>]
JSString(s) == [ty |-> "string",    num |-> 0, str |-> s]

\* v === "literal"
IsStr(v, s) == v.ty = "string" /\ v.str = s

NIFTY      == <<"N","I","F","T","Y">>
BANKNIFTY  == <<"B","A","N","K","N","I","F","T","Y">>
S_tick     == <<"t","i","c","k">>
S_signal   == <<"s","i","g","n","a","l">>
S_risk     == <<"r","i","s","k">>
S_quote    == <<"q","u","o","t","e">>
S_Buy      == <<"B","u","y">>
S_Sell     == <<"S","e","l","l">>
S_Hold     == <<"H","o","l","d">>
S_Executed == <<"E","x","e","c","u","t","e","d">>
S_CE       == <<"2","4","S","E","P","2","2","5","0","0","C","E">>
S_PE       == <<"2","4","S","E","P","2","2","5","0","0","P","E">>
S_RELIANCE == <<"R","E","L","I","A","N","C","E">>

\* String.prototype.includes: some window of s equals sub
includes(s, sub) ==
    \E i \in 0..(Len(s) - Len(sub)) : SubSeq(s, i + 1, i + Len(sub)) = sub

\* Number(x.toFixed(2)) on a count of thousandths: the nearest hundredth,
\* a half rounding away from zero
Round2(x) ==
    LET a == IF x < 0 THEN -x ELSE x
        r == ((a + 5) \div 10) * 10
    IN  IF x < 0 THEN -r ELSE r

\* the JavaScript % operator: the sign of the dividend
JSRem(a, b) == IF a >= 0 THEN a % b ELSE -((-a) % b)

\* ------------------------------------------------------------------------
\* Inbound values.  A parsed frame is an object with the fields the
\* classifier reads (an absent field is undefined), or not an object at all
\* (JSON.parse failed and the raw text was kept, page.tsx 195-196).
\* ------------------------------------------------------------------------
NoPayload ==
    [isObj |-> FALSE, symbol |-> JSUndefined, side |-> JSUndefined,
     qty |-> JSUndefined, price |-> JSUndefined, status |-> JSUndefined]

Payload(symbol, side, qty, price, status) ==
    [isObj |-> TRUE, symbol |-> symbol, side |-> side, qty |-> qty,
     price |-> price, status |-> status]

RawText ==
    [isObj |-> FALSE, type |-> JSUndefined, symbol |-> JSUndefined,
     ltp |-> JSUndefined, t |-> JSUndefined, instrument |-> JSUndefined,
     payload |-> NoPayload, dailyLoss |-> JSUndefined,
     marginUsedPct |-> JSUndefined]

Obj(type) == [RawText EXCEPT !.isObj = TRUE, !.type = type]

TickFrame(symbol, ltp, t) ==
    [Obj(JSString(S_tick)) EXCEPT !.symbol = symbol, !.ltp = ltp, !.t = t]

SignalFrame(instrument, payload) ==
    [Obj(JSString(S_signal)) EXCEPT !.instrument = instrument, !.payload = payload]

RiskFrame(dl, mp) ==
    [Obj(JSString(S_risk)) EXCEPT !.dailyLoss = dl, !.marginUsedPct = mp]

\* ------------------------------------------------------------------------
\* Message classifier (page.tsx 32-55)
\* ------------------------------------------------------------------------
isObject(x) == x.isObj

isTickMsg(x) ==
    /\ isObject(x)
    /\ IsStr(x.type, S_tick)
    /\ (IsStr(x.symbol, NIFTY) \/ IsStr(x.symbol, BANKNIFTY))
    /\ x.ltp.ty = "number"
    /\ x.t.ty = "number"

SignalAnySide(x) ==
    IF ~isObject(x) \/ ~IsStr(x.type, S_signal) THEN FALSE
    ELSE IF ~IsStr(x.instrument, NIFTY) /\ ~IsStr(x.instrument, BANKNIFTY) THEN FALSE
    ELSE IF ~isObject(x.payload) THEN FALSE
    ELSE /\ x.payload.symbol.ty = "string"
         /\ x.payload.side.ty = "string"
         /\ x.payload.qty.ty = "number"
         /\ x.payload.price.ty = "number"
         /\ x.payload.status.ty = "string"

isSignalMsg(x) ==
    IF ~isObject(x) \/ ~IsStr(x.type, S_signal) THEN FALSE
    ELSE IF ~IsStr(x.instrument, NIFTY) /\ ~IsStr(x.instrument, BANKNIFTY) THEN FALSE
    ELSE IF ~isObject(x.payload) THEN FALSE
    ELSE /\ x.payload.symbol.ty = "string"
         /\ (IsStr(x.payload.side, S_Buy) \/ IsStr(x.payload.side, S_Sell))
         /\ x.payload.qty.ty = "number"
         /\ x.payload.price.ty = "number"
         /\ x.payload.status.ty = "string"

isRiskMsg(x) ==
    /\ isObject(x)
    /\ IsStr(x.type, S_risk)
    /\ (x.dailyLoss.ty = "number" \/ x.dailyLoss.ty = "undefined")
    /\ (x.marginUsedPct.ty = "number" \/ x.marginUsedPct.ty = "undefined")

\* StreamMsg | null: isNull marks the null result
NullMsg == [isNull |-> TRUE, msg |-> RawText]
SomeMsg(x) == [isNull |-> FALSE, msg |-> x]

asStreamMsg(x) ==
    IF isTickMsg(x) THEN SomeMsg(x)
    ELSE IF isSignalMsg(x) THEN SomeMsg(x)
    ELSE IF isRiskMsg(x) THEN SomeMsg(x)
    ELSE NullMsg

\* ------------------------------------------------------------------------
\* TradingDashboard: initial state and stream handlers (page.tsx 406-489)
\* ------------------------------------------------------------------------
StoreConstructed ==
    /\ marketData = [nifty |-> 0, bankNifty |-> 0]
    /\ dailyLoss = 0
    /\ marginUsedPct = 40
    /\ signalsN = <<>> /\ tradesN = <<>> /\ logsN = <<>>
    /\ signalsB = <<>> /\ tradesB = <<>> /\ logsB = <<>>
    /\ sysLogs = <<>>

\* log lines: the text after the wall-clock prefix, field by field
SysLine(text, attempt, ms) == [text |-> text, attempt |-> attempt, ms |-> ms]
TickLine(t, symbol, ltp) ==
    [kind |-> "tick", t |-> t, who |-> symbol, side |-> <<>>, qty |-> 0,
     sym |-> <<>>, price |-> Round2(ltp)]
SignalLine(instrument, s) ==
    [kind |-> "signal", t |-> 0, who |-> instrument, side |-> s.side,
     qty |-> s.qty, sym |-> s.symbol, price |-> s.price]

\* the signal payload and the trade built from it (page.tsx 475, 479)
SignalOf(p) ==
    [symbol |-> p.symbol.str, side |-> p.side.str, qty |-> p.qty.num,
     price |-> p.price.num, status |-> p.status.str]
TradeOfLtpUnset(s) ==
    [symbol |-> s.symbol, side |-> s.side, qty |-> s.qty, avgPrice |-> s.price,
     ltp |-> 0, status |-> s.status]
TradeOf(s) ==
    [symbol |-> s.symbol, side |-> s.side, qty |-> s.qty, avgPrice |-> s.price,
     ltp |-> s.price, status |-> s.status]

\* page.tsx 450-452
onOpen ==
    /\ sysLogs' = pushBounded(sysLogs, SysLine("stream connected", 0, 0), MAX_SYS_LOGS)
    /\ UNCHANGED <<marketData, dailyLoss, marginUsedPct, signalsN, tradesN, logsN,
                   signalsB, tradesB, logsB>>
onError ==
    /\ sysLogs' = pushBounded(sysLogs, SysLine("stream error", 0, 0), MAX_SYS_LOGS)
    /\ UNCHANGED <<marketData, dailyLoss, marginUsedPct, signalsN, tradesN, logsN,
                   signalsB, tradesB, logsB>>
onReconnect(attempt, delay) ==
    /\ sysLogs' = pushBounded(sysLogs, SysLine("reconnect attempt", attempt, delay),
                              MAX_SYS_LOGS)
    /\ UNCHANGED <<marketData, dailyLoss, marginUsedPct, signalsN, tradesN, logsN,
                   signalsB, tradesB, logsB>>

\* page.tsx 459: the trades whose symbol includes the tick's symbol take its price
updExact(arr, symbol, ltp) ==
    [i \in DOMAIN arr |->
        IF arr[i].symbol = symbol THEN [arr[i] EXCEPT !.ltp = Round2(ltp)] ELSE arr[i]]

updPrefix(arr, symbol, ltp) ==
    [i \in DOMAIN arr |->
        IF /\ Len(arr[i].symbol) >= Len(symbol)
           /\ SubSeq(arr[i].symbol, 1, Len(symbol)) = symbol
        THEN [arr[i] EXCEPT !.ltp = Round2(ltp)] ELSE arr[i]]

updUnrounded(arr, symbol, ltp) ==
    [i \in DOMAIN arr |->
        IF includes(arr[i].symbol, symbol) THEN [arr[i] EXCEPT !.ltp = ltp] ELSE arr[i]]

updMovesAvgPrice(arr, symbol, ltp) ==
    [i \in DOMAIN arr |->
        IF includes(arr[i].symbol, symbol)
        THEN [arr[i] EXCEPT !.ltp = Round2(ltp), !.avgPrice = Round2(ltp)] ELSE arr[i]]

upd(arr, symbol, ltp) ==
    [i \in DOMAIN arr |->
        IF includes(arr[i].symbol, symbol) THEN [arr[i] EXCEPT !.ltp = Round2(ltp)] ELSE arr[i]]

\* page.tsx 454-469
onTickLogsAlways(symbol, ltp, t) ==
    /\ marketData' =
          IF symbol = NIFTY THEN [marketData EXCEPT !.nifty = Round2(ltp)]
          ELSE IF symbol = BANKNIFTY THEN [marketData EXCEPT !.bankNifty = Round2(ltp)]
          ELSE marketData
    /\ tradesN' = upd(tradesN, symbol, ltp)
    /\ tradesB' = upd(tradesB, symbol, ltp)
    /\ logsN' = IF symbol = NIFTY
                THEN pushBounded(logsN, TickLine(t, symbol, ltp), MAX_SYS_LOGS)
                ELSE logsN
    /\ logsB' = IF symbol = BANKNIFTY
                THEN pushBounded(logsB, TickLine(t, symbol, ltp), MAX_SYS_LOGS)
                ELSE logsB
    /\ UNCHANGED <<dailyLoss, marginUsedPct, signalsN, signalsB, sysLogs>>

onTick(symbol, ltp, t) ==
    /\ marketData' =
          IF symbol = NIFTY THEN [marketData EXCEPT !.nifty = Round2(ltp)]
          ELSE IF symbol = BANKNIFTY THEN [marketData EXCEPT !.bankNifty = Round2(ltp)]
          ELSE marketData
    /\ tradesN' = upd(tradesN, symbol, ltp)
    /\ tradesB' = upd(tradesB, symbol, ltp)
    /\ logsN' = IF JSRem(t, 2000) < 120 /\ symbol = NIFTY
                THEN pushBounded(logsN, TickLine(t, symbol, ltp), MAX_SYS_LOGS)
                ELSE logsN
    /\ logsB' = IF JSRem(t, 2000) < 120 /\ symbol = BANKNIFTY
                THEN pushBounded(logsB, TickLine(t, symbol, ltp), MAX_SYS_LOGS)
                ELSE logsB
    /\ UNCHANGED <<dailyLoss, marginUsedPct, signalsN, signalsB, sysLogs>>

onSignalCapsSwapped(instrument, s) ==
    /\ IF instrument = BANKNIFTY
       THEN /\ signalsB' = pushBounded(signalsB, s, MAX_TRADE_LOGS)
            /\ tradesB' = pushBounded(tradesB, TradeOf(s), MAX_SIGNALS)
            /\ logsB' = pushBounded(logsB, SignalLine(instrument, s), MAX_SYS_LOGS)
            /\ UNCHANGED <<signalsN, tradesN, logsN>>
       ELSE /\ signalsN' = pushBounded(signalsN, s, MAX_TRADE_LOGS)
            /\ tradesN' = pushBounded(tradesN, TradeOf(s), MAX_SIGNALS)
            /\ logsN' = pushBounded(logsN, SignalLine(instrument, s), MAX_SYS_LOGS)
            /\ UNCHANGED <<signalsB, tradesB, logsB>>
    /\ UNCHANGED <<marketData, dailyLoss, marginUsedPct, sysLogs>>

\* page.tsx 470-482
onSignal(instrument, s) ==
    /\ IF instrument = BANKNIFTY
       THEN /\ signalsB' = pushBounded(signalsB, s, MAX_SIGNALS)
            /\ tradesB' = pushBounded(tradesB, TradeOf(s), MAX_TRADE_LOGS)
            /\ logsB' = pushBounded(logsB, SignalLine(instrument, s), MAX_SYS_LOGS)
            /\ UNCHANGED <<signalsN, tradesN, logsN>>
       ELSE /\ signalsN' = pushBounded(signalsN, s, MAX_SIGNALS)
            /\ tradesN' = pushBounded(tradesN, TradeOf(s), MAX_TRADE_LOGS)
            /\ logsN' = pushBounded(logsN, SignalLine(instrument, s), MAX_SYS_LOGS)
            /\ UNCHANGED <<signalsB, tradesB, logsB>>
    /\ UNCHANGED <<marketData, dailyLoss, marginUsedPct, sysLogs>>

\* page.tsx 483-487
onRiskClearsAbsent(msg) ==
    /\ dailyLoss' = IF msg.dailyLoss.ty = "number" THEN msg.dailyLoss.num ELSE 0
    /\ marginUsedPct' = IF msg.marginUsedPct.ty = "number" THEN msg.marginUsedPct.num
                        ELSE 0
    /\ sysLogs' = pushBounded(sysLogs, SysLine("risk update", 0, 0), MAX_SYS_LOGS)
    /\ UNCHANGED <<marketData, signalsN, tradesN, logsN, signalsB, tradesB, logsB>>

onRisk(msg) ==
    /\ dailyLoss' = IF msg.dailyLoss.ty = "number" THEN msg.dailyLoss.num ELSE dailyLoss
    /\ marginUsedPct' = IF msg.marginUsedPct.ty = "number" THEN msg.marginUsedPct.num
                        ELSE marginUsedPct
    /\ sysLogs' = pushBounded(sysLogs, SysLine("risk update", 0, 0), MAX_SYS_LOGS)
    /\ UNCHANGED <<marketData, signalsN, tradesN, logsN, signalsB, tradesB, logsB>>

\* page.tsx 453-488: the three branches test msg.type
onMessage(msg) ==
    IF IsStr(msg.type, S_tick) THEN onTick(msg.symbol.str, msg.ltp.num, msg.t.num)
    ELSE IF IsStr(msg.type, S_signal)
         THEN onSignal(msg.instrument.str, SignalOf(msg.payload))
    ELSE IF IsStr(msg.type, S_risk) THEN onRisk(msg)
    ELSE UNCHANGED storeVars

\* ws.onmessage (page.tsx 194-199) wired to the dashboard's onMessage
wsOnMessageUnchecked(parsed) ==
    IF isObject(parsed) THEN onMessage(parsed) ELSE UNCHANGED storeVars

wsOnMessage(parsed) ==
    LET coerced == asStreamMsg(parsed)
    IN  IF ~coerced.isNull THEN onMessage(coerced.msg) ELSE UNCHANGED storeVars

\* ------------------------------------------------------------------------
\* Inputs tried on the handlers
\* ------------------------------------------------------------------------
MaxSteps == 2      \* handler calls applied after the initial state

PayloadN == Payload(JSString(NIFTY \o S_CE), JSString(S_Buy), JSNumber(50),
                    JSNumber(224150), JSString(S_Executed))
PayloadB == Payload(JSString(BANKNIFTY \o S_PE), JSString(S_Sell), JSNumber(50),
                    JSNumber(223500), JSString(S_Executed))

ValidFrames ==
    { TickFrame(JSString(NIFTY), JSNumber(22400125), JSNumber(0)),
      TickFrame(JSString(NIFTY), JSNumber(22403000), JSNumber(500)),
      TickFrame(JSString(BANKNIFTY), JSNumber(48200004), JSNumber(2050)),
      SignalFrame(JSString(NIFTY), PayloadN),
      SignalFrame(JSString(BANKNIFTY), PayloadB),
      SignalFrame(JSString(NIFTY),
                  Payload(JSString(S_RELIANCE), JSString(S_Sell), JSNumber(10),
                          JSNumber(100000), JSString(S_Executed))),
      SignalFrame(JSString(BANKNIFTY),
                  Payload(JSString(<<>>), JSString(S_Buy), JSNumber(-5),
                          JSNumber(0), JSString(S_Executed))),
      RiskFrame(JSNumber(4200), JSNumber(85)),
      RiskFrame(JSNumber(-100), JSUndefined),
      RiskFrame(JSUndefined, JSNumber(95)),
      RiskFrame(JSUndefined, JSUndefined) }

OddFrames ==
    { RawText,
      Obj(JSString(S_quote)),
      TickFrame(JSString(NIFTY), JSUndefined, JSNumber(0)),
      TickFrame(JSString(S_RELIANCE), JSNumber(22400125), JSNumber(0)),
      SignalFrame(JSString(NIFTY), NoPayload),
      SignalFrame(JSString(BANKNIFTY),
                  Payload(JSString(BANKNIFTY \o S_PE), JSString(S_Hold), JSNumber(50),
                          JSNumber(223500), JSString(S_Executed))),
      RiskFrame(JSString(S_quote), JSNumber(85)) }

Frames == ValidFrames \cup OddFrames

NoInput == [kind |-> "none", frame |-> RawText, attempt |-> 0, delay |-> 0]
FrameInput(x) == [NoInput EXCEPT !.kind = "frame", !.frame = x]

RECURSIVE PushN(_, _, _, _)
PushN(arr, item, max, n) ==
    \* n pushes in a row, split in halves to keep the evaluation shallow
    IF n = 0 THEN arr
    ELSE IF n = 1 THEN pushBounded(arr, item, max)
    ELSE LET half == PushN(arr, item, max, n \div 2)
         IN  IF Len(half) >= 0 THEN PushN(half, item, max, n - (n \div 2)) ELSE half

\* The dashboard after n signals on each instrument and n stream-connected
\* lines: n = 0 is the state after construction, the other takes the lists
\* to their capacities.
Prefills == {0, MAX_TRADE_LOGS - 1}

StoreAfter(n) ==
    /\ marketData = [nifty |-> 0, bankNifty |-> 0]
    /\ dailyLoss = 0
    /\ marginUsedPct = 40
    /\ signalsN = PushN(<<>>, SignalOf(PayloadN), MAX_SIGNALS, n)
    /\ tradesN = PushN(<<>>, TradeOf(SignalOf(PayloadN)), MAX_TRADE_LOGS, n)
    /\ logsN = PushN(<<>>, SignalLine(NIFTY, SignalOf(PayloadN)), MAX_SYS_LOGS, n)
    /\ signalsB = PushN(<<>>, SignalOf(PayloadB), MAX_SIGNALS, n)
    /\ tradesB = PushN(<<>>, TradeOf(SignalOf(PayloadB)), MAX_TRADE_LOGS, n)
    /\ logsB = PushN(<<>>, SignalLine(BANKNIFTY, SignalOf(PayloadB)), MAX_SYS_LOGS, n)
    /\ sysLogs = PushN(<<>>, SysLine("stream connected", 0, 0), MAX_SYS_LOGS, n)

StoreIdle == StoreConstructed /\ steps = 0 /\ lastIn = NoInput

\* placeholders for the parts a specification does not exercise
StreamIdle ==
    /\ useMock = FALSE /\ url = "" /\ started = FALSE /\ ws = "null"
    /\ closed = FALSE /\ hbTimer = 0 /\ timers = {} /\ reconnectAttempt = 0
    /\ reconnectPending = FALSE /\ mockTimer = FALSE /\ tornDown = FALSE
    /\ teardowns = 0
    /\ lateEvents = {} /\ consecCloses = 0 /\ lastBackoff = <<-1, 0>>
    /\ calls = <<>>

ThrIdle ==
    /\ value = 0 /\ throttled = 0 /\ lastRaf = 0 /\ rafQueue = {} /\ lastTime = 0
    /\ now = 0 /\ phase = "idle" /\ pubs = 0 /\ lastGap = -1

CfgIdle == dailyMaxLoss = DAILY_MAX_LOSS /\ marginWarnPct = MARGIN_WARN_PCT

NoArgs == [side |-> <<>>, a |-> 0, b |-> 0, c |-> 0]
NoOut  == [level |-> "", n |-> 0, d |-> 1]
CalcIdle == fn = "none" /\ args = NoArgs /\ out = NoOut

\* ------------------------------------------------------------------------
\* Specification of the lone buffer
\* ------------------------------------------------------------------------
BufInit ==
    /\ bufCap \in 1..MaxCap /\ buf = <<>> /\ pushed = <<>>
    /\ StoreIdle /\ StreamIdle /\ ThrIdle /\ CfgIdle /\ CalcIdle

BufNext == \E item \in Items : BufPush(item)

SpecBuf == BufInit /\ [][BufNext]_vars

\* ------------------------------------------------------------------------
\* Specification of the dashboard's handlers
\* ------------------------------------------------------------------------
StoreInit ==
    /\ \E n \in Prefills : StoreAfter(n)
    /\ steps = 0 /\ lastIn = NoInput
    /\ BufIdle /\ StreamIdle /\ ThrIdle /\ CfgIdle /\ CalcIdle

StoreFrame(x) ==
    /\ steps < MaxSteps
    /\ wsOnMessage(x)
    /\ steps' = steps + 1
    /\ lastIn' = FrameInput(x)
    /\ UNCHANGED <<bufVars, streamVars, thrVars, cfgVars, calcVars>>

StoreOpen ==
    /\ steps < MaxSteps
    /\ onOpen
    /\ steps' = steps + 1
    /\ lastIn' = [NoInput EXCEPT !.kind = "open"]
    /\ UNCHANGED <<bufVars, streamVars, thrVars, cfgVars, calcVars>>

StoreError ==
    /\ steps < MaxSteps
    /\ onError
    /\ steps' = steps + 1
    /\ lastIn' = [NoInput EXCEPT !.kind = "error"]
    /\ UNCHANGED <<bufVars, streamVars, thrVars, cfgVars, calcVars>>

StoreReconnect(attempt, delay) ==
    /\ steps < MaxSteps
    /\ onReconnect(attempt, delay)
    /\ steps' = steps + 1
    /\ lastIn' = [NoInput EXCEPT !.kind = "reconnect", !.attempt = attempt,
                                 !.delay = delay]
    /\ UNCHANGED <<bufVars, streamVars, thrVars, cfgVars, calcVars>>

StoreNext ==
    \/ \E x \in Frames : StoreFrame(x)
    \/ StoreOpen
    \/ StoreError
    \/ \E a \in {1, 2} : StoreReconnect(a, 500 * a + 150)

SpecStore == StoreInit /\ [][StoreNext]_vars

\* the same handlers from the state after construction only
StoreFreshInit ==
    /\ StoreAfter(0)
    /\ steps = 0 /\ lastIn = NoInput
    /\ BufIdle /\ StreamIdle /\ ThrIdle /\ CfgIdle /\ CalcIdle

SpecStoreFresh == StoreFreshInit /\ [][StoreNext]_vars

\* ------------------------------------------------------------------------
\* createMarketStream (page.tsx 144-221)
\*
\* The socket is the browser's: it is CONNECTING after construction, then
\* OPEN or closed; close() on a CONNECTING or OPEN socket makes it CLOSING
\* and its close event follows; message events are delivered only while
\* OPEN; error events are modelled while CONNECTING or OPEN.  At most one
\* socket is not CLOSED at a time, since connect runs again only from the
\* close handler's timer, so `ws` holds the readyState of the current one.
\* ------------------------------------------------------------------------
MaxAttempt == 7    \* closes in a row the model follows before an open
MaxTimers  == 3    \* heartbeat intervals the model lets the stream create
MaxTeardowns == 2  \* teardown calls the model follows

GoodUrl == "wss://feed.example/stream"
BadUrl  == "wss://feed.example/stream#now"   \* a fragment is not allowed
Urls    == {"", GoodUrl, BadUrl}

\* new WebSocket(url) throws a SyntaxError on a URL it cannot parse
CtorThrows(u) == u = BadUrl

Jitters == {0, 137, 299}              \* Math.random() * 300, in [0, 300)

RECURSIVE Pow2(_)
Pow2(n) == IF n = 0 THEN 1 ELSE 2 * Pow2(n - 1)

\* page.tsx 203
backoffAfterIncrement(attempt, jitter) ==
    Min(30000, Pow2(attempt + 1) * 500 + jitter)

backoffDelay(attempt, jitter) == Min(30000, Pow2(attempt) * 500 + jitter)

Call(h, attempt, delay, msg) == [h |-> h, attempt |-> attempt, delay |-> delay, msg |-> msg]
OpenCall  == Call("onOpen", 0, 0, RawText)
ErrorCall == Call("onError", 0, 0, RawText)
MsgCall(m) == Call("onMessage", 0, 0, m)

IsMock == useMock \/ url = ""

Late(what) == lateEvents' = IF tornDown THEN lateEvents \cup what ELSE lateEvents

\* connect(), page.tsx 156-217: the mock branch starts the interval and calls
\* onOpen; the live branch constructs the socket, and a throwing constructor
\* is reported through onError
connect ==
    IF IsMock
    THEN /\ mockTimer' = TRUE
         /\ calls' = <<OpenCall>>
         /\ Late({"connect", "open"})
         /\ UNCHANGED ws
    ELSE IF CtorThrows(url)
    THEN /\ calls' = <<ErrorCall>>
         /\ Late({"connect", "error"})
         /\ UNCHANGED <<ws, mockTimer>>
    ELSE /\ ws' = "CONNECTING"
         /\ calls' = <<>>
         /\ Late({"connect"})
         /\ UNCHANGED mockTimer

\* createMarketStream: const teardown = connect() (page.tsx 219)
StreamCreate ==
    /\ ~started
    /\ started' = TRUE
    /\ connect
    /\ UNCHANGED <<useMock, url, closed, hbTimer, timers, reconnectAttempt,
                   reconnectPending, tornDown, teardowns, consecCloses, lastBackoff>>

\* ws.onopen, page.tsx 189-193
StreamOpenKeepsAttempt ==
    /\ ws = "CONNECTING"
    /\ hbTimer < MaxTimers
    /\ ws' = "OPEN"
    /\ calls' = <<OpenCall>>
    /\ hbTimer' = hbTimer + 1
    /\ timers' = timers \cup {hbTimer + 1}
    /\ consecCloses' = 0
    /\ Late({"open"})
    /\ UNCHANGED <<useMock, url, started, closed, reconnectAttempt, reconnectPending,
                   mockTimer, tornDown, teardowns, lastBackoff>>

StreamOpen ==
    /\ ws = "CONNECTING"
    /\ hbTimer < MaxTimers
    /\ ws' = "OPEN"
    /\ reconnectAttempt' = 0
    /\ calls' = <<OpenCall>>
    /\ hbTimer' = hbTimer + 1
    /\ timers' = timers \cup {hbTimer + 1}
    /\ consecCloses' = 0
    /\ Late({"open"})
    /\ UNCHANGED <<useMock, url, started, closed, reconnectPending, mockTimer,
                   tornDown, teardowns, lastBackoff>>

\* ws.onmessage, page.tsx 194-199
StreamMessage(parsed) ==
    /\ ws = "OPEN"
    /\ LET coerced == asStreamMsg(parsed)
       IN  IF ~coerced.isNull
           THEN calls' = <<MsgCall(coerced.msg)>> /\ Late({"message"})
           ELSE calls' = <<>> /\ UNCHANGED lateEvents
    /\ UNCHANGED <<useMock, url, started, ws, closed, hbTimer, timers,
                   reconnectAttempt, reconnectPending, mockTimer, tornDown, teardowns,
                   consecCloses, lastBackoff>>

\* heartbeat(), page.tsx 150-154, called by one of the intervals ws.onopen
\* started: it sends a ping on the socket `ws` refers to if that is OPEN
PingSend(id) == Call("ws.send", id, 0, RawText)

StreamHeartbeatUnchecked(id) ==
    /\ id \in timers
    /\ calls' = <<PingSend(id)>>
    /\ UNCHANGED <<useMock, url, started, ws, closed, hbTimer, timers,
                   reconnectAttempt, reconnectPending, mockTimer, tornDown, teardowns,
                   lateEvents, consecCloses, lastBackoff>>

StreamHeartbeat(id) ==
    /\ id \in timers
    /\ calls' = IF ws = "OPEN" THEN <<PingSend(id)>> ELSE <<>>
    /\ UNCHANGED <<useMock, url, started, ws, closed, hbTimer, timers,
                   reconnectAttempt, reconnectPending, mockTimer, tornDown, teardowns,
                   lateEvents, consecCloses, lastBackoff>>

\* ws.onerror, page.tsx 200
StreamErrorReconnects ==
    /\ ws \in {"CONNECTING", "OPEN"}
    /\ calls' = <<ErrorCall>>
    /\ Late({"error"})
    /\ reconnectAttempt' = reconnectAttempt + 1
    /\ reconnectPending' = TRUE
    /\ UNCHANGED <<useMock, url, started, ws, closed, hbTimer, timers,
                   mockTimer, tornDown, teardowns, consecCloses, lastBackoff>>

StreamError ==
    /\ ws \in {"CONNECTING", "OPEN"}
    /\ calls' = <<ErrorCall>>
    /\ Late({"error"})
    /\ UNCHANGED <<useMock, url, started, ws, closed, hbTimer, timers,
                   reconnectAttempt, reconnectPending, mockTimer, tornDown, teardowns,
                   consecCloses, lastBackoff>>

\* ws.onclose, page.tsx 201-207
onCloseNoReconnect(jitter) ==
    IF closed
    THEN UNCHANGED <<reconnectAttempt, reconnectPending, consecCloses,
                     lastBackoff, lateEvents>> /\ calls' = <<>>
    ELSE LET delay == backoffDelay(reconnectAttempt, jitter)
         IN  /\ reconnectAttempt' = reconnectAttempt + 1
             /\ calls' = <<Call("onReconnect", reconnectAttempt + 1, delay, RawText)>>
             /\ UNCHANGED reconnectPending
             /\ consecCloses' = consecCloses + 1
             /\ lastBackoff' = <<consecCloses, delay>>
             /\ Late({"reconnecting"})

onClose(jitter) ==
    IF closed
    THEN UNCHANGED <<reconnectAttempt, reconnectPending, consecCloses,
                     lastBackoff, lateEvents>> /\ calls' = <<>>
    ELSE LET delay == backoffDelay(reconnectAttempt, jitter)
         IN  /\ reconnectAttempt' = reconnectAttempt + 1
             /\ calls' = <<Call("onReconnect", reconnectAttempt + 1, delay, RawText)>>
             /\ reconnectPending' = TRUE
             /\ consecCloses' = consecCloses + 1
             /\ lastBackoff' = <<consecCloses, delay>>
             /\ Late({"reconnecting"})

StreamClose(jitter) ==
    /\ ws \in {"CONNECTING", "OPEN", "CLOSING"}
    /\ closed \/ reconnectAttempt < MaxAttempt
    /\ ws' = "CLOSED"
    /\ onClose(jitter)
    /\ UNCHANGED <<useMock, url, started, closed, hbTimer, timers, mockTimer, tornDown, teardowns>>

\* the setTimeout(connect, delay) of page.tsx 206 fires
StreamReconnect ==
    /\ reconnectPending
    /\ reconnectPending' = FALSE
    /\ connect
    /\ UNCHANGED <<useMock, url, started, closed, hbTimer, timers,
                   reconnectAttempt, tornDown, teardowns, consecCloses, lastBackoff>>

\* the mock interval fires, page.tsx 159-182: a tick per instrument and,
\* one time in a hundred, a signal
MockT == {50, 500}                     \* Date.now(), as far as t % 2000 goes
MockSignals ==
    { SignalFrame(JSString(NIFTY),
                  Payload(JSString(NIFTY \o S_CE), JSString(S_Buy), JSNumber(50),
                          JSNumber(224150), JSString(S_Executed))),
      SignalFrame(JSString(BANKNIFTY),
                  Payload(JSString(BANKNIFTY \o S_PE), JSString(S_Sell), JSNumber(50),
                          JSNumber(223500), JSString(S_Executed))) }

StreamMock(t, ltpN, ltpB, extra) ==
    /\ mockTimer
    /\ calls' = << MsgCall(TickFrame(JSString(NIFTY), JSNumber(ltpN), JSNumber(t))),
                   MsgCall(TickFrame(JSString(BANKNIFTY), JSNumber(ltpB), JSNumber(t))) >>
                \o [i \in 1..Len(extra) |-> MsgCall(extra[i])]
    /\ Late({"message"})
    /\ UNCHANGED <<useMock, url, started, ws, closed, hbTimer, timers,
                   reconnectAttempt, reconnectPending, mockTimer, tornDown, teardowns,
                   consecCloses, lastBackoff>>

StreamTeardownToggles ==
    /\ started
    /\ teardowns < MaxTeardowns
    /\ tornDown' = TRUE
    /\ teardowns' = teardowns + 1
    /\ calls' = <<>>
    /\ IF IsMock
       THEN /\ mockTimer' = ~mockTimer
            /\ UNCHANGED <<closed, timers, ws>>
       ELSE /\ closed' = ~closed
            /\ timers' = IF hbTimer # 0 THEN timers \ {hbTimer} ELSE timers
            /\ ws' = IF ws \in {"CONNECTING", "OPEN"} THEN "CLOSING" ELSE ws
            /\ UNCHANGED mockTimer
    /\ UNCHANGED <<useMock, url, started, hbTimer, reconnectAttempt,
                   reconnectPending, lateEvents, consecCloses, lastBackoff>>

\* the function createMarketStream returns (page.tsx 220) calls the teardown
\* the first connect() returned: page.tsx 184 for the mock, 212-216 live
StreamTeardown ==
    /\ started
    /\ teardowns < MaxTeardowns
    /\ tornDown' = TRUE
    /\ teardowns' = teardowns + 1
    /\ calls' = <<>>
    /\ IF IsMock
       THEN /\ mockTimer' = FALSE
            /\ UNCHANGED <<closed, timers, ws>>
       ELSE /\ closed' = TRUE
            /\ timers' = IF hbTimer # 0 THEN timers \ {hbTimer} ELSE timers
            /\ ws' = IF ws \in {"CONNECTING", "OPEN"} THEN "CLOSING" ELSE ws
            /\ UNCHANGED mockTimer
    /\ UNCHANGED <<useMock, url, started, hbTimer, reconnectAttempt,
                   reconnectPending, lateEvents, consecCloses, lastBackoff>>

\* the stream on its own: its handlers are only recorded in `calls`
Op(kind) == [NoInput EXCEPT !.kind = kind]
StreamOnly(kind) ==
    /\ lastIn' = Op(kind)
    /\ UNCHANGED <<steps, bufVars, storeVars, thrVars, cfgVars, calcVars>>

CreateMarketStream == StreamCreate /\ StreamOnly("create")
WsOpen == StreamOpen /\ StreamOnly("open")
WsMessage(parsed) == StreamMessage(parsed) /\ StreamOnly("message")
WsError == StreamError /\ StreamOnly("error")
WsHeartbeat(id) == StreamHeartbeat(id) /\ StreamOnly("heartbeat")
WsClose(jitter) == StreamClose(jitter) /\ StreamOnly("close")
ReconnectTimer == StreamReconnect /\ StreamOnly("timer")
MockFire(t, ltpN, ltpB, extra) == StreamMock(t, ltpN, ltpB, extra) /\ StreamOnly("mock")
Teardown == StreamTeardown /\ StreamOnly("teardown")

StreamFrames ==
    { TickFrame(JSString(NIFTY), JSNumber(22400125), JSNumber(0)),
      RiskFrame(JSNumber(4200), JSNumber(85)),
      Obj(JSString(S_quote)) }

StreamInit ==
    /\ useMock \in BOOLEAN /\ url \in Urls /\ started = FALSE /\ ws = "null"
    /\ closed = FALSE /\ hbTimer = 0 /\ timers = {} /\ reconnectAttempt = 0
    /\ reconnectPending = FALSE /\ mockTimer = FALSE /\ tornDown = FALSE
    /\ teardowns = 0
    /\ lateEvents = {} /\ consecCloses = 0 /\ lastBackoff = <<-1, 0>>
    /\ calls = <<>>
    /\ BufIdle /\ StoreIdle /\ ThrIdle /\ CfgIdle /\ CalcIdle

StreamNext ==
    \/ CreateMarketStream
    \/ WsOpen
    \/ \E x \in StreamFrames : WsMessage(x)
    \/ WsError
    \/ \E id \in 1..MaxTimers : WsHeartbeat(id)
    \/ \E j \in Jitters : WsClose(j)
    \/ ReconnectTimer
    \/ \E t \in MockT, extra \in {<<>>} \cup {<<m>> : m \in MockSignals} :
          MockFire(t, 22396000 + t, 48203999, extra)
    \/ Teardown

SpecStream == StreamInit /\ [][StreamNext]_vars

\* timers that are due fire, and a socket that is not CLOSED gets its close
\* event or stays connected: only the timer's firing is assumed here
FairSpecStream == SpecStream /\ WF_vars(ReconnectTimer)

\* ------------------------------------------------------------------------
\* The live stream wired to the dashboard (page.tsx 448-491): every handler
\* call the stream makes is applied to the dashboard's state in the same
\* step.  The live backend makes at most one handler call per event.
\* ------------------------------------------------------------------------
MaxLiveSteps == 6      \* stream events followed

Deliver(cs) ==
    IF Len(cs) = 0 THEN UNCHANGED storeVars
    ELSE LET c == cs[1]
         IN  IF c.h = "onOpen" THEN onOpen
             ELSE IF c.h = "onError" THEN onError
             ELSE IF c.h = "onReconnect" THEN onReconnect(c.attempt, c.delay)
             ELSE onMessage(c.msg)

Live(kind, frame) ==
    /\ steps < MaxLiveSteps
    /\ Deliver(calls')
    /\ steps' = steps + 1
    /\ lastIn' = [Op(kind) EXCEPT !.frame = frame]
    /\ UNCHANGED <<bufVars, thrVars, cfgVars, calcVars>>

LiveCreate == StreamCreate /\ Live("create", RawText)
LiveOpen == StreamOpen /\ Live("open", RawText)
LiveMessage(parsed) == StreamMessage(parsed) /\ Live("message", parsed)
LiveError == StreamError /\ Live("error", RawText)
LiveClose(jitter) == StreamClose(jitter) /\ Live("close", RawText)
LiveReconnectTimer == StreamReconnect /\ Live("timer", RawText)
LiveTeardown == StreamTeardown /\ Live("teardown", RawText)

LiveInit ==
    /\ useMock = FALSE /\ url \in {GoodUrl, BadUrl} /\ started = FALSE /\ ws = "null"
    /\ closed = FALSE /\ hbTimer = 0 /\ timers = {} /\ reconnectAttempt = 0
    /\ reconnectPending = FALSE /\ mockTimer = FALSE /\ tornDown = FALSE
    /\ teardowns = 0
    /\ lateEvents = {} /\ consecCloses = 0 /\ lastBackoff = <<-1, 0>>
    /\ calls = <<>>
    /\ BufIdle /\ StoreIdle /\ ThrIdle /\ CfgIdle /\ CalcIdle

LiveNext ==
    \/ LiveCreate
    \/ LiveOpen
    \/ \E x \in StreamFrames : LiveMessage(x)
    \/ LiveError
    \/ \E j \in Jitters : LiveClose(j)
    \/ LiveReconnectTimer
    \/ LiveTeardown

SpecLive == LiveInit /\ [][LiveNext]_vars

\* ------------------------------------------------------------------------
\* Risk level, risk drift and the thresholds (page.tsx 19-21, 386-389,
\* 494-501).  The thresholds are whatever Number(process.env...) gave when
\* the module loaded: nothing validates them.  Amounts and percentages are
\* whole numbers here; x >= limit * 0.8 is compared as 10 x >= 8 limit.
\* ------------------------------------------------------------------------
MaxRiskSteps == 4      \* risk messages and drift ticks followed

clamp(n, min, max) == Max(min, Min(max, n))

\* the badge's level: cls of page.tsx 389 by its meaning
RiskBadgeStrict(dl, mp) ==
    LET breach == dl > dailyMaxLoss \/ mp > marginWarnPct
        warn   == ~breach /\ (10 * dl > WARN_TENTHS * dailyMaxLoss
                              \/ 10 * mp > WARN_TENTHS * marginWarnPct)
    IN  IF breach THEN "Breach" ELSE IF warn THEN "Warn" ELSE "Normal"

RiskBadge(dl, mp) ==
    LET breach == dl >= dailyMaxLoss \/ mp >= marginWarnPct
        warn   == ~breach /\ (10 * dl >= WARN_TENTHS * dailyMaxLoss
                              \/ 10 * mp >= WARN_TENTHS * marginWarnPct)
    IN  IF breach THEN "Breach" ELSE IF warn THEN "Warn" ELSE "Normal"

\* values the environment can give the thresholds: the defaults, other
\* positive values, and values no validation rejects
Limits     == {DAILY_MAX_LOSS, 1000, 0, -5000}
MarginPcts == {MARGIN_WARN_PCT, 45, 0}

\* (Math.random() - 0.55) * 250 lies in [-137.5, 112.5),
\* (Math.random() - 0.5) * 2 in [-1, 1)
DriftLoss   == {-137, 0, 112}
DriftMargin == {-1, 0}

RiskFrames ==
    { RiskFrame(JSNumber(4200), JSNumber(85)),
      RiskFrame(JSNumber(-100), JSUndefined),
      RiskFrame(JSUndefined, JSNumber(95)),
      RiskFrame(JSUndefined, JSUndefined),
      RiskFrame(JSString(S_quote), JSNumber(85)) }

\* the risk message of the live stream, page.tsx 194-199 and 483-487
RiskMessage(x) ==
    /\ ~IsMock
    /\ steps < MaxRiskSteps
    /\ wsOnMessage(x)
    /\ steps' = steps + 1
    /\ lastIn' = FrameInput(x)
    /\ UNCHANGED <<bufVars, streamVars, thrVars, cfgVars, calcVars>>

\* the drift interval of page.tsx 494-501, which runs only with USE_MOCK
RiskDriftUnclamped(d, e) ==
    /\ useMock
    /\ steps < MaxRiskSteps
    /\ dailyLoss' = dailyLoss + d
    /\ marginUsedPct' = clamp(marginUsedPct + e, 30, 110)
    /\ steps' = steps + 1
    /\ lastIn' = Op("drift")
    /\ UNCHANGED <<marketData, signalsN, tradesN, logsN, signalsB, tradesB, logsB,
                   sysLogs>>
    /\ UNCHANGED <<bufVars, streamVars, thrVars, cfgVars, calcVars>>

RiskDrift(d, e) ==
    /\ useMock
    /\ steps < MaxRiskSteps
    /\ dailyLoss' = clamp(dailyLoss + d, 0, (dailyMaxLoss * 3) \div 2)
    /\ marginUsedPct' = clamp(marginUsedPct + e, 30, 110)
    /\ steps' = steps + 1
    /\ lastIn' = Op("drift")
    /\ UNCHANGED <<marketData, signalsN, tradesN, logsN, signalsB, tradesB, logsB,
                   sysLogs>>
    /\ UNCHANGED <<bufVars, streamVars, thrVars, cfgVars, calcVars>>

\* the dashboard after construction, with either backend; with the mock
\* and the default limit also after the drift has taken the loss near its
\* upper clamp
RiskInit ==
    /\ dailyMaxLoss \in Limits /\ marginWarnPct \in MarginPcts
    /\ useMock \in BOOLEAN /\ url = GoodUrl /\ started = FALSE /\ ws = "null"
    /\ closed = FALSE /\ hbTimer = 0 /\ timers = {} /\ reconnectAttempt = 0
    /\ reconnectPending = FALSE /\ mockTimer = FALSE /\ tornDown = FALSE
    /\ teardowns = 0
    /\ lateEvents = {} /\ consecCloses = 0 /\ lastBackoff = <<-1, 0>>
    /\ calls = <<>>
    /\ marketData = [nifty |-> 0, bankNifty |-> 0]
    /\ dailyLoss \in (IF useMock /\ dailyMaxLoss = DAILY_MAX_LOSS THEN {0, 7450} ELSE {0})
    /\ marginUsedPct = 40
    /\ signalsN = <<>> /\ tradesN = <<>> /\ logsN = <<>>
    /\ signalsB = <<>> /\ tradesB = <<>> /\ logsB = <<>>
    /\ sysLogs = <<>>
    /\ steps = 0 /\ lastIn = NoInput
    /\ BufIdle /\ ThrIdle /\ CalcIdle

RiskNext ==
    \/ \E x \in RiskFrames : RiskMessage(x)
    \/ \E d \in DriftLoss, e \in DriftMargin : RiskDrift(d, e)

SpecRisk == RiskInit /\ [][RiskNext]_vars

\* ------------------------------------------------------------------------
\* The pure functions applied to inputs drawn from small sets.  A number
\* that a division produced is the fraction n/d in lowest terms, d > 0;
\* the rounding of IEEE doubles is not followed.
\* ------------------------------------------------------------------------
RECURSIVE GCD(_, _)
GCD(a, b) == IF b = 0 THEN a ELSE GCD(b, a % b)

Abs(x) == IF x < 0 THEN -x ELSE x

\* n / d for d # 0
Frac(n, d) ==
    LET g == GCD(Abs(n), Abs(d))
        sgn == IF d < 0 THEN -1 ELSE 1
    IN  [n |-> sgn * (n \div g), d |-> sgn * (d \div g)]

\* page.tsx 68-73: any side but "Buy" takes the second branch
calcPnLPctSidesSwapped(side, avgPrice, ltp) ==
    IF avgPrice = 0 THEN Frac(0, 1)
    ELSE IF side = S_Buy
         THEN LET q == Frac(avgPrice - ltp, avgPrice) IN Frac(q.n * 100, q.d)
         ELSE LET q == Frac(ltp - avgPrice, avgPrice) IN Frac(q.n * 100, q.d)

calcPnLPct(side, avgPrice, ltp) ==
    IF avgPrice = 0 THEN Frac(0, 1)
    ELSE IF side = S_Buy
         THEN LET q == Frac(ltp - avgPrice, avgPrice) IN Frac(q.n * 100, q.d)
         ELSE LET q == Frac(avgPrice - ltp, avgPrice) IN Frac(q.n * 100, q.d)

\* page.tsx 76-79
calcPnLAbsIgnoresSide(side, avgPrice, ltp, qty) == (ltp - avgPrice) * qty

calcPnLAbs(side, avgPrice, ltp, qty) ==
    LET diff == IF side = S_Buy THEN ltp - avgPrice ELSE avgPrice - ltp
    IN  diff * qty

Sides      == {S_Buy, S_Sell}
AvgPrices  == {0, 3, 100, 224}
Ltps       == {0, 90, 100, 110, 225}
Qtys       == {-5, 0, 1, 50}
LossInputs == {-100, 0, 799, 800, 999, 1000, 3999, 4000, 4001, 4999, 5000, 5001}
PctInputs  == {0, 35, 36, 44, 45, 71, 72, 73, 89, 90, 91, 110}

ApplyRiskBadge(dl, mp) ==
    /\ fn' = "RiskBadge"
    /\ args' = [NoArgs EXCEPT !.a = dl, !.b = mp]
    /\ out' = [NoOut EXCEPT !.level = RiskBadge(dl, mp)]
    /\ UNCHANGED <<bufVars, storeVars, histVars, streamVars, thrVars, cfgVars>>

ApplyPnLPct(side, avgPrice, ltp) ==
    /\ fn' = "calcPnLPct"
    /\ args' = [NoArgs EXCEPT !.side = side, !.a = avgPrice, !.b = ltp]
    /\ out' = LET r == calcPnLPct(side, avgPrice, ltp)
              IN  [NoOut EXCEPT !.n = r.n, !.d = r.d]
    /\ UNCHANGED <<bufVars, storeVars, histVars, streamVars, thrVars, cfgVars>>

ApplyPnLAbs(side, avgPrice, ltp, qty) ==
    /\ fn' = "calcPnLAbs"
    /\ args' = [side |-> side, a |-> avgPrice, b |-> ltp, c |-> qty]
    /\ out' = [NoOut EXCEPT !.n = calcPnLAbs(side, avgPrice, ltp, qty)]
    /\ UNCHANGED <<bufVars, storeVars, histVars, streamVars, thrVars, cfgVars>>

CalcInit ==
    /\ dailyMaxLoss \in Limits /\ marginWarnPct \in MarginPcts
    /\ CalcIdle
    /\ BufIdle /\ StoreIdle /\ StreamIdle /\ ThrIdle

CalcNext ==
    \/ \E dl \in LossInputs, mp \in PctInputs : ApplyRiskBadge(dl, mp)
    \/ \E side \in Sides, a \in AvgPrices, l \in Ltps : ApplyPnLPct(side, a, l)
    \/ \E side \in Sides, a \in AvgPrices, l \in Ltps, q \in Qtys :
          ApplyPnLAbs(side, a, l, q)

SpecCalc == CalcInit /\ [][CalcNext]_vars

\* ------------------------------------------------------------------------
\* useRafThrottle (page.tsx 82-106)
\*
\* The hook's input is identified by its version number: every new value is
\* a new object to React (setMarketData builds one per tick), so version n
\* is the n-th value handed to the hook.  `now` is performance.now() in ms;
\* the pending animation-frame callbacks are records of their id, of the
\* value their closure captured and of the clock reading they were requested
\* at.  A callback runs at the browser's next frame: at a later clock
\* reading, however much later.
\* ------------------------------------------------------------------------
MaxChanges == 3      \* value changes handed to the hook
MaxTime    == 400    \* latest clock reading, ms

Interval  == 1000 \div UI_FPS          \* page.tsx 86
Deltas    == {16, 250}                 \* clock advances: a frame, an interval
InitTimes == {0, 300}                  \* clock reading at the first render

\* setThrottled(v) with the bookkeeping of when publishes happened
Publish(v) ==
    /\ throttled' = v
    /\ lastGap' = IF pubs >= 1 THEN now - lastTime ELSE -1
    /\ pubs' = pubs + 1
    /\ lastTime' = now

cancelAnimationFrame(q, id) == {cb \in q : cb.id # id}

\* the effect's cleanup, page.tsx 101-103
cleanupKeepsPending(q) == q

cleanup(q) == IF lastRaf # 0 THEN cancelAnimationFrame(q, lastRaf) ELSE q

\* the effect body, page.tsx 89-100, run for value v with q the callbacks
\* still pending
effectSkipIfScheduled(v, q) ==
    IF now - lastTime >= Interval
    THEN /\ Publish(v)
         /\ rafQueue' = q
         /\ UNCHANGED lastRaf
    ELSE /\ IF lastRaf # 0
            THEN rafQueue' = q /\ UNCHANGED lastRaf
            ELSE rafQueue' = q \cup {[id |-> lastRaf + 1, v |-> v, at |-> now]}
                 /\ lastRaf' = lastRaf + 1
         /\ UNCHANGED <<throttled, lastTime, pubs, lastGap>>

effect(v, q) ==
    IF now - lastTime >= Interval
    THEN /\ Publish(v)
         /\ rafQueue' = q
         /\ UNCHANGED lastRaf
    ELSE /\ rafQueue' = cleanup(q) \cup {[id |-> lastRaf + 1, v |-> v, at |-> now]}
         /\ lastRaf' = lastRaf + 1
         /\ UNCHANGED <<throttled, lastTime, pubs, lastGap>>

\* the first commit: the effect runs for the initial value
Mount ==
    /\ phase = "rendered"
    /\ phase' = "mounted"
    /\ effect(value, rafQueue)
    /\ UNCHANGED <<value, now>>
    /\ UNCHANGED <<bufVars, storeVars, histVars, streamVars, cfgVars, calcVars>>

\* a render with a new value: the previous effect's cleanup, then the effect
ValueChange ==
    /\ phase = "mounted"
    /\ value < MaxChanges
    /\ value' = value + 1
    /\ effect(value + 1, cleanup(rafQueue))
    /\ UNCHANGED <<phase, now>>
    /\ UNCHANGED <<bufVars, storeVars, histVars, streamVars, cfgVars, calcVars>>

\* the browser runs a pending animation-frame callback, page.tsx 96-99
RafFire ==
    /\ \E cb \in rafQueue :
          /\ now > cb.at
          /\ rafQueue' = rafQueue \ {cb}
          /\ Publish(cb.v)
    /\ UNCHANGED <<value, lastRaf, now, phase>>
    /\ UNCHANGED <<bufVars, storeVars, histVars, streamVars, cfgVars, calcVars>>

\* the component unmounts: the last effect's cleanup
UnmountKeepsPending ==
    /\ phase = "mounted"
    /\ phase' = "unmounted"
    /\ UNCHANGED <<value, throttled, lastRaf, rafQueue, lastTime, now, pubs, lastGap>>
    /\ UNCHANGED <<bufVars, storeVars, histVars, streamVars, cfgVars, calcVars>>

Unmount ==
    /\ phase = "mounted"
    /\ phase' = "unmounted"
    /\ rafQueue' = cleanup(rafQueue)
    /\ UNCHANGED <<value, throttled, lastRaf, lastTime, now, pubs, lastGap>>
    /\ UNCHANGED <<bufVars, storeVars, histVars, streamVars, cfgVars, calcVars>>

Advance(d) ==
    /\ now + d <= MaxTime
    /\ now' = now + d
    /\ UNCHANGED <<value, throttled, lastRaf, rafQueue, lastTime, phase, pubs, lastGap>>
    /\ UNCHANGED <<bufVars, storeVars, histVars, streamVars, cfgVars, calcVars>>

ThrInit ==
    /\ value = 0 /\ throttled = 0 /\ lastRaf = 0 /\ rafQueue = {} /\ lastTime = 0
    /\ now \in InitTimes /\ phase = "rendered" /\ pubs = 0 /\ lastGap = -1
    /\ BufIdle /\ StoreIdle /\ StreamIdle /\ CfgIdle /\ CalcIdle

ThrNext ==
    \/ Mount
    \/ ValueChange
    \/ RafFire
    \/ Unmount
    \/ \E d \in Deltas : Advance(d)

SpecThrottle == ThrInit /\ [][ThrNext]_vars

\* ========================================================================
\* Claims about the bounded buffer and the dashboard's handlers
\* ========================================================================

\* C6: after any sequence of pushBounded calls from an empty buffer of
\* capacity N >= 1 the length is min(pushes, N), the first element is the
\* item pushed last, and the contents are the most recent min(pushes, N)
\* items, newest first.
C6_NewestFirstWindow ==
    /\ Len(buf) = Min(Len(pushed), bufCap)
    /\ (pushed # <<>> => buf[1] = pushed[Len(pushed)])
    /\ \A i \in 1..Len(buf) : buf[i] = pushed[Len(pushed) - i + 1]

\* the buffer overflowed by two or more items of both kinds
C6_Witness ==
    /\ bufCap >= 2
    /\ Len(pushed) >= bufCap + 2
    /\ Len(buf) = bufCap
    /\ pushed[1] # pushed[Len(pushed)]
    /\ buf[1] # buf[2]

\* C7: in every reachable state each instrument's signal list has at most
\* 500 entries, each trade list at most 1000, each instrument's log list and
\* the system log at most 200.
C7_ListsWithinCapacity ==
    /\ Len(signalsN) <= 500 /\ Len(signalsB) <= 500
    /\ Len(tradesN) <= 1000 /\ Len(tradesB) <= 1000
    /\ Len(logsN) <= 200 /\ Len(logsB) <= 200
    /\ Len(sysLogs) <= 200

\* two signals arrived on lists holding 999 entries' worth of history: the
\* signal and log lists were full before both, the trade list before the second
C7_Witness ==
    /\ steps = 2
    /\ lastIn.kind = "frame" /\ lastIn.frame.payload.symbol.str = S_RELIANCE
    /\ Len(signalsN) = 500 /\ Len(tradesN) = 1000 /\ Len(logsN) = 200
    /\ signalsN[1].symbol = S_RELIANCE /\ signalsN[2].symbol = S_RELIANCE
    /\ tradesN[3].symbol = NIFTY \o S_CE

\* s has x as a substring: x fits at some offset k
ContainsAt(s, x, k) == k + Len(x) <= Len(s) /\ \A j \in 1..Len(x) : s[k + j] = x[j]
Contains(s, x) == \E k \in 0..Len(s) : ContainsAt(s, x, k)
StartsWith(s, x) == ContainsAt(s, x, 0)

\* r is p (thousandths) rounded to two decimals
IsRounded2(p, r) == r % 10 = 0 /\ r - p <= 5 /\ p - r <= 5

\* the step just taken handed frame x to ws.onmessage
FrameStep == steps' = steps + 1 /\ lastIn'.kind = "frame"

TickStep ==
    /\ FrameStep
    /\ lastIn'.frame.isObj
    /\ lastIn'.frame.type.str = S_tick
    /\ lastIn'.frame.symbol.str \in {NIFTY, BANKNIFTY}
    /\ lastIn'.frame.ltp.ty = "number"
    /\ lastIn'.frame.t.ty = "number"

TickSetsMatching(old, new, X, p) ==
    /\ Len(new) = Len(old)
    /\ \A i \in 1..Len(old) :
          IF Contains(old[i].symbol, X)
          THEN /\ IsRounded2(p, new[i].ltp)
               /\ new[i] = [old[i] EXCEPT !.ltp = new[i].ltp]
          ELSE new[i] = old[i]

\* C8: a tick for instrument X sets lastTradedPrice to the tick's price
\* rounded to 2 decimals on every stored trade, in both trade lists, whose
\* symbol code contains X, and leaves every other trade unchanged.
C8_TickUpdatesContaining ==
    [][TickStep =>
         /\ TickSetsMatching(tradesN, tradesN', lastIn'.frame.symbol.str,
                             lastIn'.frame.ltp.num)
         /\ TickSetsMatching(tradesB, tradesB', lastIn'.frame.symbol.str,
                             lastIn'.frame.ltp.num)]_vars

\* a NIFTY tick at 22400.125 has just been applied to a list holding a
\* RELIANCE trade (kept) and NIFTY option trades (now at 22400.13), and to
\* the BANKNIFTY option trades of the other list (now at 22400.13 too)
C8_Witness ==
    /\ lastIn.kind = "frame" /\ IsStr(lastIn.frame.type, S_tick)
    /\ lastIn.frame.symbol.str = NIFTY /\ lastIn.frame.ltp.num = 22400125
    /\ Len(tradesN) >= 2 /\ Len(tradesB) >= 1
    /\ tradesN[1].symbol = S_RELIANCE /\ tradesN[1].ltp = 100000
    /\ tradesN[2].symbol = NIFTY \o S_CE /\ tradesN[2].ltp = 22400130
    /\ tradesN[2].avgPrice = 224150
    /\ tradesB[1].symbol = BANKNIFTY \o S_PE /\ tradesB[1].ltp = 22400130

TickKeepsOtherPrefixes(old, new, X) ==
    /\ Len(new) = Len(old)
    /\ \A i \in 1..Len(old) : ~StartsWith(old[i].symbol, X) => new[i].ltp = old[i].ltp

\* C9: a stored trade's lastTradedPrice is changed only by ticks whose
\* instrument name is the prefix of the trade's symbol code; a tick for the
\* other instrument leaves it unchanged.
C9_TickOnlyTouchesOwnPrefix ==
    [][TickStep =>
         /\ TickKeepsOtherPrefixes(tradesN, tradesN', lastIn'.frame.symbol.str)
         /\ TickKeepsOtherPrefixes(tradesB, tradesB', lastIn'.frame.symbol.str)]_vars

\* the shapes of TickMsg, SignalMsg and RiskMsg (page.tsx 26-29)
TickShape(x) ==
    /\ x.isObj /\ x.type.ty = "string" /\ x.type.str = S_tick
    /\ x.symbol.ty = "string" /\ x.symbol.str \in {NIFTY, BANKNIFTY}
    /\ x.ltp.ty = "number" /\ x.t.ty = "number"
SignalShape(x) ==
    /\ x.isObj /\ x.type.ty = "string" /\ x.type.str = S_signal
    /\ x.instrument.ty = "string" /\ x.instrument.str \in {NIFTY, BANKNIFTY}
    /\ x.payload.isObj
    /\ x.payload.symbol.ty = "string"
    /\ x.payload.side.ty = "string" /\ x.payload.side.str \in {S_Buy, S_Sell}
    /\ x.payload.qty.ty = "number" /\ x.payload.price.ty = "number"
    /\ x.payload.status.ty = "string"
RiskShape(x) ==
    /\ x.isObj /\ x.type.ty = "string" /\ x.type.str = S_risk
    /\ x.dailyLoss.ty \in {"number", "undefined"}
    /\ x.marginUsedPct.ty \in {"number", "undefined"}
MatchesNoShape(x) == ~TickShape(x) /\ ~SignalShape(x) /\ ~RiskShape(x)

\* C10: an inbound frame that matches none of the tick, signal or risk
\* shapes is dropped: prices, every signal, trade and log list, the risk
\* fields and the system log are unchanged by it.
C10_UnmatchedFrameDropped ==
    [][(FrameStep /\ MatchesNoShape(lastIn'.frame)) => UNCHANGED storeVars]_vars

\* a signal whose side is Hold has just been handed to a dashboard that
\* already holds a trade
C10_Witness ==
    /\ steps = 2 /\ lastIn.kind = "frame"
    /\ IsStr(lastIn.frame.type, S_signal)
    /\ lastIn.frame.payload.side.str = S_Hold
    /\ MatchesNoShape(lastIn.frame)
    /\ Len(tradesB) = 1 /\ Len(signalsB) = 1 /\ Len(logsB) = 1

\* a signal-typed frame whose payload has an empty symbol code, or a
\* quantity or a price that is zero or negative
DefectiveSignal(x) ==
    /\ x.isObj /\ x.type.ty = "string" /\ x.type.str = S_signal
    /\ x.payload.isObj
    /\ \/ (x.payload.symbol.ty = "string" /\ Len(x.payload.symbol.str) = 0)
       \/ (x.payload.qty.ty = "number" /\ x.payload.qty.num <= 0)
       \/ (x.payload.price.ty = "number" /\ x.payload.price.num <= 0)

\* C11: a signal is accepted only with a known instrument, a non-empty
\* symbol code, a side in {Buy, Sell}, a positive quantity and a positive
\* price; a signal whose symbol code is empty or whose quantity or price is
\* zero or negative is dropped and leaves the store unchanged.
C11_DefectiveSignalDropped ==
    [][(FrameStep /\ DefectiveSignal(lastIn'.frame)) => UNCHANGED storeVars]_vars

\* a risk-typed frame that carries neither field as a number
EmptyRisk(x) ==
    /\ x.isObj /\ x.type.ty = "string" /\ x.type.str = S_risk
    /\ x.dailyLoss.ty # "number" /\ x.marginUsedPct.ty # "number"

\* C12: a risk message is accepted only if at least one of dailyLoss and
\* marginUsedPct is present as a number; a risk-typed message carrying
\* neither is dropped: no risk field changes and no log line is appended.
C12_EmptyRiskDropped ==
    [][(FrameStep /\ EmptyRisk(lastIn'.frame)) => UNCHANGED storeVars]_vars

\* one line was pushed on the system log: it is in front, the lines that
\* were there follow in their order, the oldest gone if the log was full
LineLogged(text) ==
    /\ Len(sysLogs') = (IF Len(sysLogs) < 200 THEN Len(sysLogs) + 1 ELSE 200)
    /\ sysLogs'[1].text = text
    /\ \A i \in 2..Len(sysLogs') : sysLogs'[i] = sysLogs[i - 1]

\* C13: applying an accepted risk message overwrites exactly those of
\* dailyLoss and marginUsedPct that are present in it, leaves the absent
\* one at its previous value, appends one line to the system log, and
\* leaves prices and all per-instrument lists unchanged.
C13_RiskOverwritesPresent ==
    [][(FrameStep /\ RiskShape(lastIn'.frame)) =>
         /\ (lastIn'.frame.dailyLoss.ty = "number"
                => dailyLoss' = lastIn'.frame.dailyLoss.num)
         /\ (lastIn'.frame.dailyLoss.ty = "undefined" => dailyLoss' = dailyLoss)
         /\ (lastIn'.frame.marginUsedPct.ty = "number"
                => marginUsedPct' = lastIn'.frame.marginUsedPct.num)
         /\ (lastIn'.frame.marginUsedPct.ty = "undefined"
                => marginUsedPct' = marginUsedPct)
         /\ LineLogged("risk update")
         /\ UNCHANGED <<marketData, signalsN, tradesN, logsN, signalsB, tradesB,
                        logsB>>]_vars

\* a risk message carrying only marginUsedPct has just been applied after
\* one that set both fields: the daily loss of the first is still there
C13_Witness ==
    /\ steps = 2 /\ lastIn.kind = "frame" /\ IsStr(lastIn.frame.type, S_risk)
    /\ lastIn.frame.dailyLoss.ty = "undefined" /\ lastIn.frame.marginUsedPct.num = 95
    /\ dailyLoss = 4200 /\ marginUsedPct = 95
    /\ Len(sysLogs) = 2 /\ sysLogs[1].text = "risk update" /\ sysLogs[2].text = "risk update"

\* new is old with one entry pushed in front, the oldest entry gone if old
\* already held cap entries
PushedOn(old, new, cap) ==
    /\ Len(new) = (IF Len(old) < cap THEN Len(old) + 1 ELSE cap)
    /\ \A i \in 2..Len(new) : new[i] = old[i - 1]

\* the trades of new are those of old, in their order, but for lastTradedPrice
SameButLtp(old, new) ==
    /\ Len(new) = Len(old)
    /\ \A i \in 1..Len(old) : new[i] = [old[i] EXCEPT !.ltp = new[i].ltp]

\* what a tick leaves alone whatever its timestamp
TickLeavesAlone ==
    /\ UNCHANGED <<signalsN, signalsB, sysLogs, dailyLoss, marginUsedPct>>
    /\ (lastIn'.frame.symbol.str = NIFTY => marketData'.bankNifty = marketData.bankNifty)
    /\ (lastIn'.frame.symbol.str = BANKNIFTY => marketData'.nifty = marketData.nifty)
    /\ SameButLtp(tradesN, tradesN') /\ SameButLtp(tradesB, tradesB')

SignalStep == FrameStep /\ SignalShape(lastIn'.frame)

\* the lists of one instrument took the signal p
SignalLanded(p, sigs, sigsNew, trades, tradesNew, logs, logsNew) ==
    /\ PushedOn(sigs, sigsNew, 500)
    /\ sigsNew[1].symbol = p.symbol.str /\ sigsNew[1].side = p.side.str
    /\ sigsNew[1].qty = p.qty.num /\ sigsNew[1].price = p.price.num
    /\ sigsNew[1].status = p.status.str
    /\ PushedOn(trades, tradesNew, 1000)
    /\ tradesNew[1].avgPrice = p.price.num /\ tradesNew[1].ltp = p.price.num
    /\ tradesNew[1].symbol = p.symbol.str /\ tradesNew[1].side = p.side.str
    /\ tradesNew[1].qty = p.qty.num /\ tradesNew[1].status = p.status.str
    /\ PushedOn(logs, logsNew, 200)
    /\ logsNew[1].kind = "signal" /\ logsNew[1].sym = p.symbol.str

\* C22: an accepted signal for instrument I goes to the head of I's signal
\* list, a trade with avgPrice = lastTradedPrice = signal.price and the
\* signal's symbol, side, quantity and status goes to the head of I's trade
\* list, and one line is appended to I's log list; the other instrument's
\* lists, the prices, the risk fields and the system log are unchanged.
C22_SignalLands ==
    [][SignalStep =>
         LET p == lastIn'.frame.payload
         IN  /\ UNCHANGED <<marketData, dailyLoss, marginUsedPct, sysLogs>>
             /\ lastIn'.frame.instrument.str = NIFTY =>
                    /\ SignalLanded(p, signalsN, signalsN', tradesN, tradesN', logsN, logsN')
                    /\ UNCHANGED <<signalsB, tradesB, logsB>>
             /\ lastIn'.frame.instrument.str = BANKNIFTY =>
                    /\ SignalLanded(p, signalsB, signalsB', tradesB, tradesB', logsB, logsB')
                    /\ UNCHANGED <<signalsN, tradesN, logsN>>]_vars

\* a RELIANCE signal at 100 has just landed on top of a NIFTY one
C22_Witness ==
    /\ lastIn.kind = "frame" /\ IsStr(lastIn.frame.type, S_signal)
    /\ lastIn.frame.instrument.str = NIFTY
    /\ lastIn.frame.payload.symbol.str = S_RELIANCE
    /\ Len(tradesN) >= 2 /\ Len(signalsN) >= 2 /\ Len(logsN) >= 2
    /\ signalsN[1].symbol = S_RELIANCE /\ signalsN[2].symbol = NIFTY \o S_CE
    /\ tradesN[1].avgPrice = 100000 /\ tradesN[1].ltp = 100000 /\ tradesN[1].qty = 10
    /\ tradesN[1].side = S_Sell /\ tradesN[2].symbol = NIFTY \o S_CE

\* over one step a trade list either keeps its trades in place, each the
\* same but for lastTradedPrice, or takes one new trade in front of them
TradesKeepIdentity(old, new) ==
    \/ SameButLtp(old, new)
    \/ /\ SignalStep
       /\ PushedOn(old, new, 1000)
       /\ new[1].avgPrice = lastIn'.frame.payload.price.num

\* C23: every trade held in a trade list keeps the avgPrice, symbol, side
\* and quantity it was created with, through any sequence of ticks, signals
\* and risk events; only lastTradedPrice changes until the trade is evicted.
C23_AvgPriceFixed ==
    [][TradesKeepIdentity(tradesN, tradesN') /\ TradesKeepIdentity(tradesB, tradesB')]_vars

\* a NIFTY tick has moved the price of a NIFTY option trade away from the
\* price it was entered at
C23_Witness ==
    /\ lastIn.kind = "frame" /\ IsStr(lastIn.frame.type, S_tick)
    /\ Len(tradesN) >= 1
    /\ tradesN[1].symbol = NIFTY \o S_CE /\ tradesN[1].avgPrice = 224150
    /\ tradesN[1].ltp = 22403000 /\ tradesN[1].qty = 50 /\ tradesN[1].side = S_Buy

\* ========================================================================
\* Claims about the market stream
\* ========================================================================

\* C1: once teardown has been called, no new connection attempt is started
\* and no open, message, error or reconnecting event is delivered to the
\* handlers, whatever state teardown was called in (a pending reconnect
\* delay included).
C1_NothingAfterTeardown == lateEvents = {}

C5_BackoffWindows ==
    lastBackoff[1] >= 0 =>
        LET k == lastBackoff[1]
            d == lastBackoff[2]
        IN  /\ (k = 0 => 500 <= d /\ d < 800)
            /\ (k = 1 => 1000 <= d /\ d < 1300)
            /\ (k = 2 => 2000 <= d /\ d < 2300)
            /\ (k = 3 => 4000 <= d /\ d < 4300)
            /\ d <= 30000

\* the fourth close in a row after an open that itself followed closes,
\* with the largest jitter tried
C5_Witness ==
    /\ lastBackoff = <<3, 4299>>
    /\ hbTimer >= 1
    /\ reconnectPending /\ ~closed

\* what createMarketStream's closure and its socket hold
transportVars == <<useMock, url, started, ws, closed, hbTimer, timers,
                   reconnectAttempt, reconnectPending, mockTimer>>

\* one line was put in front of the system log
OneLineLogged(text) ==
    /\ Len(sysLogs') = Len(sysLogs) + 1
    /\ sysLogs'[1].text = text
    /\ \A i \in 1..Len(sysLogs) : sysLogs'[i + 1] = sysLogs[i]

\* C15: a transport error event on the live socket is non-fatal: it appends
\* one system log line and does not schedule a reconnect, change the
\* attempt counter, or touch the socket, the prices, the per-instrument
\* lists or the risk fields; a reconnect gets scheduled only by a close.
C15_ErrorOnlyLogged ==
    [][/\ (lastIn'.kind = "error" /\ steps' = steps + 1) =>
            /\ OneLineLogged("stream error")
            /\ UNCHANGED <<reconnectPending, reconnectAttempt, ws, closed>>
            /\ UNCHANGED <<marketData, dailyLoss, marginUsedPct, signalsN, tradesN,
                           logsN, signalsB, tradesB, logsB>>
       /\ (reconnectPending' /\ ~reconnectPending) => lastIn'.kind = "close"]_vars

\* an error event has just arrived on a socket that was opened again after
\* a close: the socket is still open, one more line is in the system log
\* and nothing is scheduled
C15_Witness ==
    /\ lastIn.kind = "error" /\ ws = "OPEN" /\ ~closed
    /\ ~reconnectPending /\ reconnectAttempt = 0 /\ hbTimer = 2
    /\ Len(sysLogs) = 4
    /\ sysLogs[1].text = "stream error" /\ sysLogs[2].text = "stream connected"

\* C16: teardown is idempotent: a teardown call that follows a teardown
\* call leaves the transport as the first call left it and delivers
\* nothing, for the synthetic and for the live backend.
C16_TeardownIdempotent ==
    [][(lastIn.kind = "teardown" /\ lastIn'.kind = "teardown" /\ teardowns' = teardowns + 1)
          => (UNCHANGED transportVars /\ calls' = <<>> /\ UNCHANGED lateEvents)]_vars

\* the live stream was torn down twice in a row while its socket was open
\* with a heartbeat running
C16_Witness ==
    /\ teardowns = 2 /\ lastIn.kind = "teardown"
    /\ ~IsMock /\ closed /\ ws = "CLOSING" /\ hbTimer = 1 /\ timers = {}

\* the step just taken was an unintentional close: it reported a reconnect
ReconnectReported ==
    /\ lastIn'.kind = "close"
    /\ Len(calls') = 1 /\ calls'[1].h = "onReconnect"
    /\ consecCloses' = consecCloses + 1

\* C24: whenever the live connection reaches Open the attempt counter is
\* reset to 0, so the first reconnecting event after an open reports
\* attempt 1 with a delay in [500,800) ms however many failures preceded
\* the open; between opens the reconnecting events report attempts
\* 1, 2, 3, ... increasing by exactly one.
C24_AttemptResetOnOpen ==
    [][/\ (ws = "CONNECTING" /\ ws' = "OPEN") => reconnectAttempt' = 0
       /\ ReconnectReported =>
            /\ calls'[1].attempt = consecCloses + 1
            /\ (consecCloses = 0 =>
                   (calls'[1].attempt = 1 /\ 500 <= calls'[1].delay
                    /\ calls'[1].delay < 800))]_vars

\* the connection opened, was lost and retried, opened a second time and
\* was lost again: this loss is reported as attempt 1
C24_Witness ==
    /\ lastIn.kind = "close" /\ hbTimer = 2 /\ ~closed
    /\ Len(calls) = 1 /\ calls[1].h = "onReconnect" /\ calls[1].attempt = 1
    /\ calls[1].delay = 799
    /\ consecCloses = 1 /\ reconnectPending

\* C25: at any time at most one heartbeat timer is active in the live
\* transport, across any number of close/reconnect/open cycles; no
\* keep-alive is sent while the socket is not open, and no heartbeat timer
\* remains active after teardown.
C25_AtMostOneHeartbeat ==
    /\ Cardinality(timers) <= 1
    /\ (lastIn.kind = "heartbeat" /\ ws # "OPEN" => calls = <<>>)
    /\ (lastIn.kind = "teardown" => timers = {})

\* ========================================================================
\* Claims about the risk fields, the risk level and the thresholds
\* ========================================================================

\* C14: in every reachable state the stored daily loss is >= 0, for any
\* sequence of accepted risk messages and local risk-simulation steps.
C14_DailyLossNonNegative == dailyLoss >= 0

\* the thresholds are not both positive
InvalidThresholds == dailyMaxLoss <= 0 \/ marginWarnPct <= 0

\* C20: started with an invalid threshold configuration (a daily loss
\* limit or margin warn percentage that is not positive), the pipeline
\* fails at startup: no stream event is processed and no risk level is
\* derived from the invalid values.
C20_InvalidThresholdsFailFast ==
    InvalidThresholds => (lastIn.kind # "frame" /\ sysLogs = <<>>)

\* the step just taken was a tick of the local risk simulation
DriftStep == lastIn'.kind = "drift" /\ steps' = steps + 1

\* C28: with the synthetic configuration and a positive daily loss limit,
\* starting from dailyLoss = 0 and marginUsedPercent = 40, after every
\* local risk-simulation step the daily loss lies in [0, 1.5 x limit] and
\* marginUsedPercent in [30, 110]; the simulation takes no step when the
\* synthetic flag is off.
C28_DriftStaysClamped ==
    [][DriftStep =>
         /\ useMock
         /\ 30 <= marginUsedPct' /\ marginUsedPct' <= 110
         /\ (dailyMaxLoss > 0 =>
                (0 <= dailyLoss' /\ 2 * dailyLoss' <= 3 * dailyMaxLoss))]_vars

\* a simulation step has just pushed a loss of 7450 against the upper end
\* of the range for the default limit of 5000
C28_Witness ==
    /\ lastIn.kind = "drift" /\ useMock /\ dailyMaxLoss = 5000
    /\ dailyLoss = 7500 /\ steps = 1 /\ marginUsedPct = 39

\* C17: the risk level is Breach exactly when dailyLoss >= limit or
\* marginUsedPercent >= warnPercent (equality counts), otherwise Warn
\* exactly when dailyLoss >= 0.8 x limit or marginUsedPercent >= 0.8 x
\* warnPercent, otherwise Normal; the three levels exclude each other.
C17_RiskLevels ==
    fn = "RiskBadge" =>
        LET dl == args.a
            mp == args.b
            B  == dl >= dailyMaxLoss \/ mp >= marginWarnPct
            W  == dl * 10 >= dailyMaxLoss * 8 \/ mp * 10 >= marginWarnPct * 8
        IN  /\ (out.level = "Breach" <=> B)
            /\ (out.level = "Warn" <=> (~B /\ W))
            /\ (out.level = "Normal" <=> (~B /\ ~W))
            /\ Cardinality({l \in {"Breach", "Warn", "Normal"} : out.level = l}) = 1

\* a daily loss equal to the default limit, with no margin used, is a Breach
C17_Witness ==
    /\ fn = "RiskBadge" /\ dailyMaxLoss = 5000 /\ marginWarnPct = 90
    /\ args.a = 5000 /\ args.b = 0 /\ out.level = "Breach"

\* C18: pnlPercent(side, avgPrice, ltp) is 0 when avgPrice is 0, otherwise
\* ((ltp - avgPrice) / avgPrice) * 100 for Buy and
\* ((avgPrice - ltp) / avgPrice) * 100 for Sell; pnlPercent(Buy, 100, 110)
\* and pnlPercent(Sell, 100, 90) are both 10.
C18_PnLPercent ==
    fn = "calcPnLPct" =>
        LET avg == args.a
            ltp == args.b
        IN  /\ out.d > 0
            /\ (avg = 0 => out.n = 0)
            /\ (avg # 0 /\ args.side = S_Buy
                   => out.n * avg = (ltp - avg) * 100 * out.d)
            /\ (avg # 0 /\ args.side = S_Sell
                   => out.n * avg = (avg - ltp) * 100 * out.d)
            /\ (args.side = S_Buy /\ avg = 100 /\ ltp = 110 => out.n = 10 * out.d)
            /\ (args.side = S_Sell /\ avg = 100 /\ ltp = 90 => out.n = 10 * out.d)

\* a Sell entered at 100 and now at 90 shows +10 per cent
C18_Witness ==
    /\ fn = "calcPnLPct" /\ args.side = S_Sell /\ args.a = 100 /\ args.b = 90
    /\ out.n = 10 /\ out.d = 1

\* C19: pnlAbsolute(side, avgPrice, ltp, qty) is (ltp - avgPrice) * qty for
\* Buy and (avgPrice - ltp) * qty for Sell, so the Sell result is the
\* negation of the Buy result for the same prices and quantity;
\* pnlAbsolute(Buy, 100, 110, 50) and pnlAbsolute(Sell, 100, 90, 50) are 500.
C19_PnLAbsolute ==
    fn = "calcPnLAbs" =>
        LET avg == args.a
            ltp == args.b
            qty == args.c
        IN  /\ (args.side = S_Buy => out.n = (ltp - avg) * qty)
            /\ (args.side = S_Sell => out.n = (avg - ltp) * qty)
            /\ calcPnLAbs(S_Sell, avg, ltp, qty) = -calcPnLAbs(S_Buy, avg, ltp, qty)
            /\ (args.side = S_Buy /\ avg = 100 /\ ltp = 110 /\ qty = 50 => out.n = 500)
            /\ (args.side = S_Sell /\ avg = 100 /\ ltp = 90 /\ qty = 50 => out.n = 500)

\* a Sell of 50 entered at 100 and now at 90 shows +500
C19_Witness ==
    /\ fn = "calcPnLAbs" /\ args.side = S_Sell /\ args.a = 100 /\ args.b = 90
    /\ args.c = 50 /\ out.n = 500

\* ========================================================================
\* Claims about the publication throttle
\* ========================================================================

\* C2: the throttle publishes at most once per interval (250 ms at 4
\* updates/sec): any two successive publishes are at least one interval
\* apart, so a burst inside a 10 ms window yields at most one publish in it.
C2_PublishesOneIntervalApart == lastGap = -1 \/ lastGap >= Interval

\* C3: while the hook is mounted, the throttle is never in a state where
\* the published value differs from the latest input value and no publish
\* of that latest value is pending.
C3_LatestPublishedOrPending ==
    (phase = "mounted" /\ throttled # value) => \E cb \in rafQueue : cb.v = value

\* a burst of three changes ended and its last value was published by the
\* deferred publish, less than an interval after the publish before it
C3_Witness ==
    /\ phase = "mounted" /\ value = 3 /\ throttled = 3 /\ rafQueue = {}
    /\ pubs = 2 /\ lastGap >= 0 /\ lastGap < Interval

\* C26: the throttle never publishes a stale value: whenever it publishes,
\* the published value is the most recent input value at that moment, a
\* deferred publish for an older value having been cancelled when the
\* newer value arrived; the published values follow the order of the inputs.
C26_PublishesLatest ==
    [][pubs' = pubs + 1 => (throttled' = value' /\ throttled' >= throttled)]_vars

\* a deferred publish was scheduled for one value and cancelled, and the
\* one scheduled for the next value has run
C26_Witness ==
    /\ phase = "mounted" /\ pubs = 1 /\ lastRaf = 2 /\ rafQueue = {}
    /\ value = 1 /\ throttled = 1 /\ lastTime > 0

\* C27: tearing the throttle down while a deferred publish is pending
\* cancels it: after teardown no publish occurs and the published value
\* stays what it was at teardown.
C27_NoPublishAfterUnmount ==
    [][phase' = "unmounted" => (throttled' = throttled /\ pubs' = pubs)]_vars

\* the hook was unmounted with a deferred publish of a newer value
\* pending: the callback is gone, the value was never published, and the
\* clock has moved on
C27_Witness ==
    /\ phase = "unmounted" /\ throttled # value /\ rafQueue = {}
    /\ lastRaf >= 1 /\ now >= 300 /\ pubs = 0
====
